---- MODULE Spec2Model ----
(***************************************************************************)
(* Model of MEMS_serial_device.py: the MEMS_device session class that      *)
(* drives a MEMS mirror driver board over a serial transport.              *)
(*                                                                         *)
(* Python values are tagged records [t, v]; byte strings and text strings  *)
(* are tagged sequences of chunks, a chunk being a maximal run of          *)
(* characters other than CR and LF, or one CR, or one LF.  A byte string   *)
(* and a text string are never equal, as in Python 3.                      *)
(*                                                                         *)
(* One step is one call of a public method, from entry to return or to the *)
(* exception that leaves it; the device's responses are inputs of the      *)
(* call.  A result is "True", "False", "None" (no return value) or         *)
(* "Raise" (an exception left the method).                                 *)
(***************************************************************************)
EXTENDS Integers, Sequences, FiniteSets, TLC

VARIABLES
    settings,   \* MEMS_device.settings, the dict declared at class scope
    position,   \* MEMS_device.position, the dict declared at class scope
    is_HV_on,   \* instance -> value of self.is_HV_on
    ser,        \* instance -> state of self.ser, "open" or "closed"
    wire,       \* the byte strings written to the transport by the last call
    last        \* the last call: operation, instance, arguments, responses read, result

vars == <<settings, position, is_HV_on, ser, wire, last>>

-----------------------------------------------------------------------------
(* Python values *)

PyInt(n)   == [t |-> "int", v |-> n]
PyFloat(n) == [t |-> "float", v |-> n]      \* v is the value in tenths
PyBool(b)  == [t |-> "bool", v |-> IF b THEN 1 ELSE 0]
PyNaN      == [t |-> "nan", v |-> 0]        \* float('nan')
PyText     == [t |-> "str", v |-> 0]        \* some str object
PyNone     == [t |-> "None", v |-> 0]

\* the value of a number in tenths
Tenths(x) == IF x.t = "float" THEN x.v ELSE 10 * x.v

\* operands for which < and > against an int are defined
IsNumber(x) == x.t \in {"int", "float", "bool", "nan"}

\* x < n and x > n for a Python number x and an int n; every comparison
\* with NaN is False
PyLt(x, n) == x.t # "nan" /\ Tenths(x) < 10 * n
PyGt(x, n) == x.t # "nan" /\ Tenths(x) > 10 * n
\* x != n
PyNe(x, n) == x.t = "nan" \/ ~IsNumber(x) \/ Tenths(x) # 10 * n

\* str(x) for the numbers the model uses
PyAbs(n) == IF n < 0 THEN 0 - n ELSE n
PyStr(x) ==
    CASE x.t = "int"   -> ToString(x.v)
      [] x.t = "float" -> (IF x.v < 0 THEN "-" ELSE "")
                              \o ToString(PyAbs(x.v) \div 10) \o "."
                              \o ToString(PyAbs(x.v) % 10)
      [] x.t = "nan"   -> "nan"
      [] x.t = "bool"  -> IF x.v = 1 THEN "True" ELSE "False"
      [] OTHER         -> "text"

-----------------------------------------------------------------------------
(* Byte strings and text *)

CR == "\r"
LF == "\n"
BadByte == "0xFF"                    \* a byte that is no valid UTF-8

Bytes(c) == [k |-> "bytes", c |-> c]
Text(c)  == [k |-> "str", c |-> c]

\* bytes(cmd, 'ascii')
Encode(s) == Bytes(s.c)
\* b.decode() is defined when every byte decodes
Decodable(b) == \A i \in 1..Len(b.c) : b.c[i] # BadByte
Decode(b) == Text(b.c)

AckText   == Text(<<"MTI-OK", CR, LF>>)
ExitBytes == Bytes(<<"MTI-Device Exit Command Mode", CR, LF>>)
BenignBytes == Bytes(<<"MTI-ERR InvalidCommand", CR, LF>>)

\* device responses
RespEmpty    == Bytes(<<>>)
RespAck      == Bytes(<<"MTI-OK", CR, LF>>)
RespAckExtra == Bytes(<<"MTI-OK", CR, LF, "MTI-OK", CR, LF>>)
RespPartial  == Bytes(<<"MTI-OK">>)
RespError    == Bytes(<<"MTI-ERR InvalidCommand", CR, LF>>)
RespGarbage  == Bytes(<<BadByte>>)
RespExit     == Bytes(<<"MTI-Device Exit Command Mode", CR, LF>>)

CmdResponses    == {RespEmpty, RespAck, RespAckExtra, RespPartial, RespError, RespGarbage}
StepResponses   == {RespAck, RespError, RespGarbage}
ExitResponses   == {RespAck, RespGarbage, RespExit}
SignOnResponses == {RespEmpty, RespError, RespAck, RespGarbage}

-----------------------------------------------------------------------------
(* The state one call works on, and what a call yields *)

\* m: the fields the call reads and writes, the bytes written so far and the
\* responses read so far
Return(m, ret) == [m |-> m, ret |-> ret]

Write(m, b) == [m EXCEPT !.wire = Append(@, b)]
Read(m, b)  == [m EXCEPT !.used = Append(@, b)]
\* the response the next read of the call gets: the device's responses come
\* in the order rs
Resp(m, rs) == rs[Len(m.used) + 1]
\* the result of an inner call, noted in the order the calls were made
Step(c)     == [c EXCEPT !.m.steps = Append(@, c.ret)]

\* cmd[-2:] and cmd[-1:] on chunks
Last2(c) == IF Len(c) >= 2 THEN SubSeq(c, Len(c) - 1, Len(c)) ELSE c
Last1(c) == IF Len(c) >= 1 THEN SubSeq(c, Len(c), Len(c)) ELSE c

StripPair(c) ==
    IF Last2(c) = <<CR, LF>> \/ Last2(c) = <<LF, CR>>
    THEN SubSeq(c, 1, Len(c) - 2) ELSE c
StripCR_slip(c) == c                  \* a lone trailing "\r" left in place
StripCR(c) == IF Last1(c) = <<CR>> THEN SubSeq(c, 1, Len(c) - 1) ELSE c
AppendLF_slip(c) == Append(c, LF)     \* "\n" appended whatever the end is
AppendLF(c) == IF c[Len(c)] # LF THEN Append(c, LF) ELSE c

\* the command formatting of _send_cmd; cmd.decode()[-1] raises IndexError on
\* an empty command
Normalizable(cmd) == StripCR(StripPair(cmd.c)) # <<>>
Normalize(cmd) == Bytes(AppendLF(StripCR(StripPair(cmd.c))))

\* the decoded response compared with "MTI-OK\r\n"
IsAck(resp) == resp = AckText

\* _send_cmd(cmd) when the device answers resp: yields [m, ret, resp]
send_cmd(m, cmd, resp) ==
    LET b == IF cmd.k = "bytes" THEN cmd ELSE Encode(cmd) IN
    IF ~Normalizable(b)
    THEN [m |-> m, ret |-> "Raise", resp |-> Text(<<>>)]
    ELSE LET m1 == Read(Write(m, Normalize(b)), resp) IN
         IF ~Decodable(resp)
         THEN [m |-> m1, ret |-> "Raise", resp |-> Text(<<>>)]
         ELSE [m |-> m1, ret |-> "None", resp |-> Decode(resp)]

-----------------------------------------------------------------------------
(* The operations of MEMS_device, as functions of the state they work on *)

\* type(v) != int or v < lo or v > hi
\* a slip in the upper bound of Vbias
Vbias_invalid_slip(v)       == v.t # "int" \/ v.v < 0 \/ v.v > 101
Vbias_invalid(v)            == v.t # "int" \/ v.v < 0 \/ v.v > 100
VdifferenceMax_invalid(v)   == v.t # "int" \/ v.v < 0 \/ v.v > 200
HardwareFilterBW_invalid(v) == v.t # "int" \/ v.v < 50 \/ v.v > 15000

\* the guard "if (self.is_HV_on)" of the three setters
ParamsLocked_slip(m) == FALSE         \* the guard left out
ParamsLocked(m) == m.hv

set_Vbias(m, Vbias, resp) ==
    IF ParamsLocked(m) THEN Return(m, "False")
    ELSE IF Vbias_invalid(Vbias) THEN Return(m, "False")
    ELSE LET r == send_cmd(m, Text(<<"MTI+VB " \o PyStr(Vbias)>>), resp) IN
         IF r.ret = "Raise" THEN Return(r.m, "Raise")
         ELSE IF IsAck(r.resp)
              THEN Return([r.m EXCEPT !.settings.Vbias = Vbias], "True")
              ELSE Return(r.m, "False")

\* the value stored under the key of the setter above
set_VdifferenceMax_slip(m, VdifferenceMax, resp) ==
    IF ParamsLocked(m) THEN Return(m, "False")
    ELSE IF VdifferenceMax_invalid(VdifferenceMax) THEN Return(m, "False")
    ELSE LET r == send_cmd(m, Text(<<"MTI+VD " \o PyStr(VdifferenceMax)>>), resp) IN
         IF r.ret = "Raise" THEN Return(r.m, "Raise")
         ELSE IF IsAck(r.resp)
              THEN Return([r.m EXCEPT !.settings.Vbias = VdifferenceMax], "True")
              ELSE Return(r.m, "False")
set_VdifferenceMax(m, VdifferenceMax, resp) ==
    IF ParamsLocked(m) THEN Return(m, "False")
    ELSE IF VdifferenceMax_invalid(VdifferenceMax) THEN Return(m, "False")
    ELSE LET r == send_cmd(m, Text(<<"MTI+VD " \o PyStr(VdifferenceMax)>>), resp) IN
         IF r.ret = "Raise" THEN Return(r.m, "Raise")
         ELSE IF IsAck(r.resp)
              THEN Return([r.m EXCEPT !.settings.VdifferenceMax = VdifferenceMax], "True")
              ELSE Return(r.m, "False")

set_HardwareFilterBW(m, HardwareFilterBW, resp) ==
    IF ParamsLocked(m) THEN Return(m, "False")
    ELSE IF HardwareFilterBW_invalid(HardwareFilterBW) THEN Return(m, "False")
    ELSE LET r == send_cmd(m, Text(<<"MTI+BW " \o PyStr(HardwareFilterBW)>>), resp) IN
         IF r.ret = "Raise" THEN Return(r.m, "Raise")
         ELSE IF IsAck(r.resp)
              THEN Return([r.m EXCEPT !.settings.HardwareFilterBW = HardwareFilterBW], "True")
              ELSE Return(r.m, "False")

\* not(not cmd1_sent or not cmd2_sent or not cmd3_sent)
AllSent(c1, c2, c3) == ~(c1 # "True" \/ c2 # "True" \/ c3 # "True")

\* the three setters one after the other; an exception of one ends the call
set_mirror_params(m, Vbias, VdifferenceMax, HardwareFilterBW, rs) ==
    LET c1 == Step(set_Vbias(m, Vbias, Resp(m, rs))) IN
    IF c1.ret = "Raise" THEN c1
    ELSE LET c2 == Step(set_VdifferenceMax(c1.m, VdifferenceMax, Resp(c1.m, rs))) IN
         IF c2.ret = "Raise" THEN c2
         ELSE LET c3 == Step(set_HardwareFilterBW(c2.m, HardwareFilterBW, Resp(c2.m, rs))) IN
              IF c3.ret = "Raise" THEN c3
              ELSE Return(c3.m, IF AllSent(c1.ret, c2.ret, c3.ret) THEN "True" ELSE "False")

get_mirror_params(m) ==
    <<m.settings.Vbias, m.settings.VdifferenceMax, m.settings.HardwareFilterBW>>

get_mirror_position_slip(m) == <<m.position.y, m.position.x>>   \* (y, x)
get_mirror_position(m) == <<m.position.x, m.position.y>>

\* x<-1 or y<-1 or x>1 or y>1, evaluated left to right: "Raise" when an
\* operand that is evaluated has no order against an int
PositionCheck(x, y) ==
    IF ~IsNumber(x) THEN "Raise"
    ELSE IF PyLt(x, -1) THEN "Reject"
    ELSE IF ~IsNumber(y) THEN "Raise"
    ELSE IF PyLt(y, -1) \/ PyGt(x, 1) \/ PyGt(y, 1) THEN "Reject"
    ELSE "Pass"

set_mirror_position(m, x, y, resp) ==
    LET chk == PositionCheck(x, y) IN
    IF chk = "Raise" THEN Return(m, "Raise")
    ELSE IF chk = "Reject" THEN Return(m, "False")
    ELSE LET r == send_cmd(m, Text(<<"MTI+GT " \o PyStr(x) \o " " \o PyStr(y) \o " 0">>), resp) IN
         IF r.ret = "Raise" THEN Return(r.m, "Raise")
         ELSE IF IsAck(r.resp)
              THEN Return([r.m EXCEPT !.position = [x |-> x, y |-> y]], "True")
              ELSE Return(r.m, "None")

\* the loop "for i in [Vbias, Vdiff, HWfilt]: if i==None"
\* a loop that stops one short
MissingParams_slip(m) ==
    LET p == get_mirror_params(m) IN \E i \in 1..2 : p[i] = PyNone
MissingParams(m) ==
    LET p == get_mirror_params(m) IN \E i \in 1..3 : p[i] = PyNone

HV_on(m, resp) ==
    IF MissingParams(m) THEN Return(m, "False")
    ELSE LET r == send_cmd(m, Text(<<"MTI+EN", LF>>), resp) IN
         IF r.ret = "Raise" THEN Return(r.m, "Raise")
         ELSE IF IsAck(r.resp)
              THEN Return([r.m EXCEPT !.hv = TRUE], "True")
              ELSE Return(r.m, "False")

HV_off(m, resp) ==
    LET r == send_cmd(m, Text(<<"MTI+DI", LF>>), resp) IN
    IF r.ret = "Raise" THEN Return(r.m, "Raise")
    ELSE IF IsAck(r.resp)
         THEN Return([r.m EXCEPT !.hv = FALSE], "True")
         ELSE Return(r.m, "False")

\* "if(xpos!= 0 or ypos!=0)" of exit_safely
\* "and" written for "or"
OffCentre_slip(m) ==
    LET p == get_mirror_position(m) IN PyNe(p[1], 0) /\ PyNe(p[2], 0)
OffCentre(m) ==
    LET p == get_mirror_position(m) IN PyNe(p[1], 0) \/ PyNe(p[2], 0)

\* "if(self.is_HV_on)" of exit_safely
StillOn_slip(m) == FALSE              \* the step left out
StillOn(m) == m.hv

\* response == b'MTI-Device Exit Command Mode\r\n'
IsExit_slip(resp) == resp # Bytes(<<>>)       \* any answer taken for the exit line
IsExit(resp) == resp = ExitBytes

\* the logout exchange of exit_safely: write, readline, print when verbose,
\* close on the exit literal
Logout(m, verbose, resp) ==
    LET m1 == Read(Write(m, Bytes(<<"MTI+EX", LF>>)), resp) IN
    IF verbose /\ ~Decodable(resp) THEN Return(m1, "Raise")
    ELSE IF IsExit(resp)
         THEN Return([m1 EXCEPT !.open = FALSE], "True")
         ELSE Return(m1, "False")

exit_safely(m, verbose, rs) ==
    LET s1 == Step(IF OffCentre(m)
                   THEN set_mirror_position(m, PyInt(0), PyInt(0), Resp(m, rs))
                   ELSE Return(m, "Skip")) IN
    IF s1.ret = "Raise" THEN s1
    ELSE LET s2 == Step(IF StillOn(s1.m) THEN HV_off(s1.m, Resp(s1.m, rs))
                        ELSE Return(s1.m, "Skip")) IN
         IF s2.ret = "Raise" THEN s2
         ELSE Step(Logout(s2.m, verbose, Resp(s2.m, rs)))

\* __init__: sign on and read one line; the object exists when no exception
\* left the constructor
SignOn(m, verbose, resp) ==
    LET m1 == Read(Write(m, Bytes(<<"$MTI$", LF>>)), resp) IN
    IF resp = Bytes(<<>>) THEN Return(m1, "None")
    ELSE IF verbose /\ resp # BenignBytes /\ ~Decodable(resp) THEN Return(m1, "Raise")
    ELSE Return(m1, "None")

-----------------------------------------------------------------------------
(* The arguments the calls are made with *)

Instances == {"A", "B"}

VbiasArgs ==
    {PyInt(-1), PyInt(0), PyInt(100), PyInt(101), PyFloat(500), PyText}
VdifferenceMaxArgs ==
    {PyInt(-1), PyInt(0), PyInt(200), PyInt(201), PyBool(TRUE), PyText}
HardwareFilterBWArgs ==
    {PyInt(49), PyInt(50), PyInt(15000), PyInt(15001), PyFloat(500), PyNone}

\* the arguments of set_mirror_params: all valid, one invalid, all invalid
ParamsArgs ==
    { <<PyInt(100), PyInt(200), PyInt(15000)>>,
      <<PyInt(101), PyInt(200), PyInt(15000)>>,
      <<PyInt(100), PyInt(201), PyInt(15000)>>,
      <<PyInt(100), PyInt(200), PyInt(15001)>>,
      <<PyInt(101), PyInt(201), PyInt(15001)>> }

\* (x, y) of set_mirror_position: the bounds, values inside, values outside
\* on each side of each axis, NaN, and an operand that is no number
PositionArgs ==
    { <<PyInt(0), PyInt(0)>>, <<PyInt(1), PyInt(-1)>>, <<PyInt(-1), PyInt(1)>>,
      <<PyFloat(15), PyInt(0)>>, <<PyInt(0), PyFloat(15)>>,
      <<PyFloat(-15), PyInt(0)>>, <<PyInt(0), PyFloat(-15)>>,
      <<PyNaN, PyInt(0)>>,
      <<PyText, PyInt(0)>>, <<PyFloat(-15), PyText>> }

-----------------------------------------------------------------------------
(* The state machine *)

Init ==
    /\ settings = [Vbias |-> PyNone, VdifferenceMax |-> PyNone, HardwareFilterBW |-> PyNone]
    /\ position = [x |-> PyInt(0), y |-> PyInt(0)]
    /\ is_HV_on = [i \in Instances |-> FALSE]
    /\ ser = [i \in Instances |-> "none"]
    /\ wire = <<>>
    /\ last = [op |-> "class", self |-> "", args |-> <<>>, resps |-> <<>>,
               steps |-> <<>>, ret |-> "None", out |-> <<>>]

\* what a call on instance self starts from
Enter(self) ==
    [settings |-> settings, position |-> position, hv |-> is_HV_on[self],
     open |-> TRUE, wire |-> <<>>, used |-> <<>>, steps |-> <<>>]

\* the state a call leaves behind
Commit(self, op, args, r) ==
    /\ settings' = r.m.settings
    /\ position' = r.m.position
    /\ is_HV_on' = [is_HV_on EXCEPT ![self] = r.m.hv]
    /\ ser' = [ser EXCEPT ![self] = IF r.m.open THEN "open" ELSE "closed"]
    /\ wire' = r.m.wire
    /\ last' = [op |-> op, self |-> self, args |-> args, resps |-> r.m.used,
                steps |-> r.m.steps, ret |-> r.ret, out |-> <<>>]

\* A call is made on an object whose transport is open: exit_safely closes
\* self.ser at the end of the session, and what a write to a closed port does
\* is the transport's, not this class's.
Alive(self) == ser[self] = "open"

\* MEMS_device(port): a new object; self.is_HV_on reads the class attribute
\* False until the object assigns it; settings and position are the class's
Construct(self) ==
    /\ ser[self] # "open"
    /\ \E verbose \in BOOLEAN, resp \in SignOnResponses :
          LET r == SignOn([Enter(self) EXCEPT !.hv = FALSE], verbose, resp) IN
          /\ settings' = r.m.settings
          /\ position' = r.m.position
          /\ wire' = r.m.wire
          /\ last' = [op |-> "__init__", self |-> self, args |-> <<PyBool(verbose)>>,
                      resps |-> r.m.used, steps |-> <<>>, ret |-> r.ret,
                      out |-> <<>>]
          /\ IF r.ret = "Raise"
             THEN UNCHANGED <<is_HV_on, ser>>
             ELSE /\ is_HV_on' = [is_HV_on EXCEPT ![self] = FALSE]
                  /\ ser' = [ser EXCEPT ![self] = "open"]

\* The responses worth trying for the n-th read of a call, given how the call
\* runs when the earlier reads get what they get and the later ones an
\* acknowledgement: whether the n-th read happens depends on nothing later, and
\* a response the call never reads makes no difference to it.
Pick(n, r, S) == IF Len(r.m.used) >= n THEN S ELSE {RespAck}

Call_set_Vbias(self) ==
    /\ Alive(self)
    /\ \E v \in VbiasArgs :
       \E resp \in Pick(1, set_Vbias(Enter(self), v, RespAck), CmdResponses) :
          Commit(self, "set_Vbias", <<v>>, set_Vbias(Enter(self), v, resp))

Call_set_VdifferenceMax(self) ==
    /\ Alive(self)
    /\ \E v \in VdifferenceMaxArgs :
       \E resp \in Pick(1, set_VdifferenceMax(Enter(self), v, RespAck), CmdResponses) :
          Commit(self, "set_VdifferenceMax", <<v>>,
                 set_VdifferenceMax(Enter(self), v, resp))

Call_set_HardwareFilterBW(self) ==
    /\ Alive(self)
    /\ \E v \in HardwareFilterBWArgs :
       \E resp \in Pick(1, set_HardwareFilterBW(Enter(self), v, RespAck), CmdResponses) :
          Commit(self, "set_HardwareFilterBW", <<v>>,
                 set_HardwareFilterBW(Enter(self), v, resp))

Call_set_mirror_params(self) ==
    /\ Alive(self)
    /\ \E a \in ParamsArgs :
       \E r1 \in Pick(1, set_mirror_params(Enter(self), a[1], a[2], a[3],
                                           <<RespAck, RespAck, RespAck>>), StepResponses) :
       \E r2 \in Pick(2, set_mirror_params(Enter(self), a[1], a[2], a[3],
                                           <<r1, RespAck, RespAck>>), StepResponses) :
       \E r3 \in Pick(3, set_mirror_params(Enter(self), a[1], a[2], a[3],
                                           <<r1, r2, RespAck>>), StepResponses) :
          Commit(self, "set_mirror_params", a,
                 set_mirror_params(Enter(self), a[1], a[2], a[3], <<r1, r2, r3>>))

Call_set_mirror_position(self) ==
    /\ Alive(self)
    /\ \E a \in PositionArgs :
       \E resp \in Pick(1, set_mirror_position(Enter(self), a[1], a[2], RespAck),
                        CmdResponses) :
          Commit(self, "set_mirror_position", a,
                 set_mirror_position(Enter(self), a[1], a[2], resp))

Call_HV_on(self) ==
    /\ Alive(self)
    /\ \E resp \in Pick(1, HV_on(Enter(self), RespAck), CmdResponses) :
          Commit(self, "HV_on", <<>>, HV_on(Enter(self), resp))

Call_HV_off(self) ==
    /\ Alive(self)
    /\ \E resp \in Pick(1, HV_off(Enter(self), RespAck), CmdResponses) :
          Commit(self, "HV_off", <<>>, HV_off(Enter(self), resp))

Call_exit_safely(self) ==
    /\ Alive(self)
    /\ \E verbose \in BOOLEAN :
       \E r1 \in Pick(1, exit_safely(Enter(self), verbose,
                                     <<RespAck, RespAck, RespAck>>), ExitResponses) :
       \E r2 \in Pick(2, exit_safely(Enter(self), verbose,
                                     <<r1, RespAck, RespAck>>), ExitResponses) :
       \E r3 \in Pick(3, exit_safely(Enter(self), verbose,
                                     <<r1, r2, RespAck>>), ExitResponses) :
          Commit(self, "exit_safely", <<PyBool(verbose)>>,
                 exit_safely(Enter(self), verbose, <<r1, r2, r3>>))

\* the getters return a tuple, kept in last.out; they print and return
Call_get_mirror_params(self) ==
    /\ Alive(self)
    /\ \E verbose \in BOOLEAN :
          last' = [op |-> "get_mirror_params", self |-> self,
                   args |-> <<PyBool(verbose)>>, resps |-> <<>>, steps |-> <<>>,
                   ret |-> "Tuple", out |-> get_mirror_params(Enter(self))]
    /\ wire' = <<>>
    /\ UNCHANGED <<settings, position, is_HV_on, ser>>

Call_get_mirror_position(self) ==
    /\ Alive(self)
    /\ \E verbose \in BOOLEAN :
          last' = [op |-> "get_mirror_position", self |-> self,
                   args |-> <<PyBool(verbose)>>, resps |-> <<>>, steps |-> <<>>,
                   ret |-> "Tuple", out |-> get_mirror_position(Enter(self))]
    /\ wire' = <<>>
    /\ UNCHANGED <<settings, position, is_HV_on, ser>>

Step_of(self) ==
    \/ Construct(self)
    \/ Call_set_Vbias(self)
    \/ Call_set_VdifferenceMax(self)
    \/ Call_set_HardwareFilterBW(self)
    \/ Call_set_mirror_params(self)
    \/ Call_set_mirror_position(self)
    \/ Call_get_mirror_params(self)
    \/ Call_get_mirror_position(self)
    \/ Call_HV_on(self)
    \/ Call_HV_off(self)
    \/ Call_exit_safely(self)

\* one session, the use the program is written for
Next == Step_of("A")

Spec == Init /\ [][Next]_vars

\* Two sessions in one process, each configuring, moving the mirror and
\* enabling high voltage
Step_two(self) ==
    \/ Construct(self)
    \/ Call_set_mirror_params(self)
    \/ Call_set_mirror_position(self)
    \/ Call_HV_on(self)

NextTwo == \E self \in Instances : Step_two(self)

SpecTwo == Init /\ [][NextTwo]_vars

\* The command exchange on its own: _send_cmd called with any payload of at
\* most MaxPayloadLen characters over a letter, "\r" and "\n", as str or bytes.
MaxPayloadLen == 4
PayloadChars == {"c", CR, LF}
PayloadSeqs == UNION {[1..n -> PayloadChars] : n \in 0..MaxPayloadLen}
Payloads == {Bytes(c) : c \in PayloadSeqs} \cup {Text(c) : c \in PayloadSeqs}

\* one exchange per run, the first of its session: the formatting depends on
\* the payload alone
Call_send_cmd(self) ==
    /\ Alive(self) /\ last.op = "__init__"
    /\ \E cmd \in Payloads :
       \E resp \in Pick(1, send_cmd(Enter(self), cmd, RespAck), CmdResponses) :
          Commit(self, "_send_cmd", <<cmd>>, send_cmd(Enter(self), cmd, resp))

NextExchange == Construct("A") \/ Call_send_cmd("A")

SpecExchange == Init /\ [][NextExchange]_vars

-----------------------------------------------------------------------------
(* What the claims speak of *)

ParamSetters == {"set_Vbias", "set_VdifferenceMax", "set_HardwareFilterBW"}

\* the setting a setter is for, and the closed range the claims give it
SlotOf == [set_Vbias |-> "Vbias", set_VdifferenceMax |-> "VdifferenceMax",
           set_HardwareFilterBW |-> "HardwareFilterBW"]
RangeOf == [Vbias |-> <<0, 100>>, VdifferenceMax |-> <<0, 200>>,
            HardwareFilterBW |-> <<50, 15000>>]
InRangeOf(k, v) == v.t = "int" /\ RangeOf[k][1] <= v.v /\ v.v <= RangeOf[k][2]

AllSet == \A k \in DOMAIN settings : settings[k] # PyNone

\* C1: in every reachable state, a session whose high-voltage flag is true
\* has all three cached settings set.
C1_HighVoltageNeedsSettings ==
    \A i \in Instances : is_HV_on[i] => AllSet

\* HV_on has just switched high voltage on
C1_Witness ==
    /\ last.op = "HV_on" /\ last.ret = "True"
    /\ is_HV_on[last.self] /\ AllSet

\* C2: a parameter setter called while the high-voltage flag is true reports
\* failure, writes nothing to the transport and leaves the three settings as
\* they were; and a step that changes a setting is a step of a session whose
\* high-voltage flag is false.
C2_LockedWhileHighVoltage ==
    [][ /\ (last'.op \in ParamSetters /\ is_HV_on[last'.self])
            => (last'.ret = "False" /\ wire' = <<>> /\ settings' = settings)
        /\ (settings' # settings) => ~is_HV_on[last'.self] ]_vars

\* a setter was called with a value of its range while high voltage was on
C2_Witness ==
    /\ last.op = "set_Vbias" /\ last.args = <<PyInt(100)>>
    /\ is_HV_on[last.self] /\ last.ret = "False" /\ wire = <<>>

\* C3: a setter called with an argument that is no integer of its range
\* reports failure, writes nothing and changes no setting; so every cached
\* setting is unset or an integer of its own range.
C3_SettingsInRange ==
    \A k \in DOMAIN settings : settings[k] = PyNone \/ InRangeOf(k, settings[k])

C3_InvalidArgument ==
    /\ C3_SettingsInRange
    /\ [][ /\ C3_SettingsInRange'
           /\ (last'.op \in ParamSetters
                  /\ ~InRangeOf(SlotOf[last'.op], last'.args[1]))
               => (last'.ret = "False" /\ wire' = <<>> /\ settings' = settings) ]_vars

\* set_Vbias was called with 101 while high voltage was off
C3_Witness ==
    /\ last.op = "set_Vbias" /\ last.args = <<PyInt(101)>>
    /\ ~is_HV_on[last.self] /\ last.ret = "False" /\ wire = <<>>

-----------------------------------------------------------------------------
(* The commands as they go over the transport, and the responses that decode *)

EnableCmd   == Bytes(<<"MTI+EN", LF>>)
DisableCmd  == Bytes(<<"MTI+DI", LF>>)
LogoutCmd   == Bytes(<<"MTI+EX", LF>>)
RecentreCmd == Bytes(<<"MTI+GT 0 0 0", LF>>)
SetterCmd == [Vbias |-> "MTI+VB ", VdifferenceMax |-> "MTI+VD ",
              HardwareFilterBW |-> "MTI+BW "]
ParamCmd(k, v) == Bytes(<<SetterCmd[k] \o PyStr(v), LF>>)

\* every response of rs is text
Decoded(rs) == \A i \in 1..Len(rs) : Decodable(rs[i])

\* C4: a setter called with high voltage off and an integer v of its range
\* caches v and reports success when the response is exactly the
\* acknowledgement, and only then; on any other response the setting keeps its
\* value and the call reports failure.
C4_Step ==
    (last'.op \in ParamSetters /\ ~is_HV_on[last'.self]
        /\ InRangeOf(SlotOf[last'.op], last'.args[1]))
    => IF last'.resps = <<RespAck>>
       THEN settings'[SlotOf[last'.op]] = last'.args[1] /\ last'.ret = "True"
       ELSE settings' = settings /\ last'.ret = "False"

C4_CommitOnAck == [][C4_Step]_vars

\* the same for the responses that decode
C4_CommitOnAck_Decoded == [][Decoded(last'.resps) => C4_Step]_vars

\* C5: set_mirror_params calls the three setters in the order Vbias,
\* VdifferenceMax, HardwareFilterBW, each whatever the earlier ones did,
\* reports success exactly when the three succeeded, and a setter that
\* succeeded has committed its value.
C5_Sent(hv, a) ==
    LET one(i, k) == IF ~hv /\ InRangeOf(k, a[i]) THEN <<ParamCmd(k, a[i])>> ELSE <<>> IN
    one(1, "Vbias") \o one(2, "VdifferenceMax") \o one(3, "HardwareFilterBW")

C5_Step ==
    last'.op = "set_mirror_params"
    => /\ Len(last'.steps) = 3
       /\ \A i \in 1..3 : last'.steps[i] \in {"True", "False"}
       /\ last'.ret = IF \A i \in 1..3 : last'.steps[i] = "True" THEN "True" ELSE "False"
       /\ wire' = C5_Sent(is_HV_on[last'.self], last'.args)
       /\ settings'.Vbias =
             IF last'.steps[1] = "True" THEN last'.args[1] ELSE settings.Vbias
       /\ settings'.VdifferenceMax =
             IF last'.steps[2] = "True" THEN last'.args[2] ELSE settings.VdifferenceMax
       /\ settings'.HardwareFilterBW =
             IF last'.steps[3] = "True" THEN last'.args[3] ELSE settings.HardwareFilterBW

C5_AllThreeSetters == [][C5_Step]_vars

C5_AllThreeSetters_Decoded == [][Decoded(last'.resps) => C5_Step]_vars

\* C6: HV_on with a setting unset reports failure and writes nothing; with
\* the three set it writes the enable command, and the flag becomes true with
\* a success result when the response is exactly the acknowledgement;
\* otherwise the flag stays as it was and the call reports failure.
C6_Step ==
    last'.op = "HV_on"
    => IF ~AllSet
       THEN last'.ret = "False" /\ wire' = <<>> /\ is_HV_on' = is_HV_on
       ELSE /\ wire' = <<EnableCmd>>
            /\ IF last'.resps = <<RespAck>>
               THEN is_HV_on'[last'.self] /\ last'.ret = "True"
               ELSE is_HV_on' = is_HV_on /\ last'.ret = "False"

C6_EnableOnAck == [][C6_Step]_vars

C6_EnableOnAck_Decoded == [][Decoded(last'.resps) => C6_Step]_vars

\* C7: HV_off writes the disable command in every state; the flag becomes
\* false with a success result when the response is exactly the
\* acknowledgement; on any other response the flag keeps its value and the
\* call reports failure.
C7_Step ==
    last'.op = "HV_off"
    => /\ wire' = <<DisableCmd>>
       /\ IF last'.resps = <<RespAck>>
          THEN ~is_HV_on'[last'.self] /\ last'.ret = "True"
          ELSE is_HV_on' = is_HV_on /\ last'.ret = "False"

C7_DisableOnAck == [][C7_Step]_vars

C7_DisableOnAck_Decoded == [][Decoded(last'.resps) => C7_Step]_vars

\* a number of the closed range [-1, 1], and a number outside it
InUnit(v)  == IsNumber(v) /\ v.t # "nan" /\ -10 <= Tenths(v) /\ Tenths(v) <= 10
Outside(v) == IsNumber(v) /\ ~InUnit(v)

\* C8: set_mirror_position with an axis outside [-1, 1] reports failure,
\* writes nothing and leaves the cached position; -1 and 1 are accepted; so
\* both cached position fields lie in [-1, 1] in every reachable state.
C8_PositionInUnit == InUnit(position.x) /\ InUnit(position.y)

C8_Step ==
    /\ C8_PositionInUnit'
    /\ (last'.op = "set_mirror_position"
           /\ (Outside(last'.args[1]) \/ Outside(last'.args[2])))
       => (last'.ret = "False" /\ wire' = <<>> /\ position' = position)
    /\ (last'.op = "set_mirror_position"
           /\ last'.args = <<PyInt(1), PyInt(-1)>> /\ last'.resps = <<RespAck>>)
       => position' = [x |-> PyInt(1), y |-> PyInt(-1)]

C8_PositionBounds == C8_PositionInUnit /\ [][C8_Step]_vars

\* C9: set_mirror_position with both axes in [-1, 1] caches (x, y) and
\* reports success when the response is exactly the acknowledgement; on any
\* other response the cached position stays and the result is no success,
\* high voltage on or off.
C9_Step ==
    (last'.op = "set_mirror_position"
        /\ InUnit(last'.args[1]) /\ InUnit(last'.args[2]))
    => IF last'.resps = <<RespAck>>
       THEN /\ position' = [x |-> last'.args[1], y |-> last'.args[2]]
            /\ last'.ret = "True"
       ELSE position' = position /\ last'.ret \in {"False", "None"}

C9_PositionOnAck == [][C9_Step]_vars

C9_PositionOnAck_Decoded == [][Decoded(last'.resps) => C9_Step]_vars

\* C10: every run of exit_safely writes the logout command once, and last:
\* after the re-centering command and the disable command when it writes them,
\* in that order.
C10_LogoutAlwaysSent ==
    last.op = "exit_safely"
    => wire \in { <<LogoutCmd>>, <<RecentreCmd, LogoutCmd>>, <<DisableCmd, LogoutCmd>>,
                  <<RecentreCmd, DisableCmd, LogoutCmd>> }

\* the same when the responses to the re-centering and the disable command
\* decode
C10_LogoutAlwaysSent_Decoded ==
    (last.op = "exit_safely" /\ \A i \in 1..Len(last.resps) :
        wire[i] # LogoutCmd => Decodable(last.resps[i]))
    => wire \in { <<LogoutCmd>>, <<RecentreCmd, LogoutCmd>>, <<DisableCmd, LogoutCmd>>,
                  <<RecentreCmd, DisableCmd, LogoutCmd>> }

-----------------------------------------------------------------------------
(* The exit sequence *)

\* the response the call read to its i-th write
Answered(w, rs, cmd, resp) ==
    \E i \in 1..Len(rs) : i <= Len(w) /\ w[i] = cmd /\ rs[i] = resp

\* C11: the transport is closed exactly when exit_safely has read the exit
\* line in answer to the logout command, and exit_safely reports success
\* exactly then, whatever the re-centering and the disable step gave; no other
\* call closes the transport.
C11_Step ==
    /\ \A i \in Instances :
          (ser'[i] = "closed" /\ ser[i] # "closed")
          => (last'.op = "exit_safely" /\ last'.self = i)
    /\ last'.op = "exit_safely"
       => /\ (ser'[last'.self] = "closed")
                <=> Answered(wire', last'.resps, LogoutCmd, RespExit)
          /\ (last'.ret = "True")
                <=> Answered(wire', last'.resps, LogoutCmd, RespExit)

C11_CloseOnExitLineOnly == [][C11_Step]_vars

\* the transport was closed although the disable step had failed
C11_Witness ==
    /\ last.op = "exit_safely" /\ last.ret = "True"
    /\ ser[last.self] = "closed"
    /\ last.steps = <<"Skip", "False", "True">>

AtCentre == position = [x |-> PyInt(0), y |-> PyInt(0)]

\* every command of the call got the answer that accepts it
AllAccepted(w, rs) ==
    /\ Len(rs) = Len(w)
    /\ \A i \in 1..Len(w) : rs[i] = IF w[i] = LogoutCmd THEN RespExit ELSE RespAck

\* C12: exit_safely from a position other than (0,0) with high voltage on,
\* the device acknowledging the re-centering and the disable command and
\* answering the logout with the exit line, ends with position (0,0), high
\* voltage off, the transport closed and success.
C12_Step ==
    (last'.op = "exit_safely" /\ ~AtCentre /\ is_HV_on[last'.self]
        /\ AllAccepted(wire', last'.resps))
    => /\ AtCentre'
       /\ ~is_HV_on'[last'.self]
       /\ ser'[last'.self] = "closed"
       /\ last'.ret = "True"
       /\ wire' = <<RecentreCmd, DisableCmd, LogoutCmd>>

C12_CleanExit == [][C12_Step]_vars

C12_Witness ==
    /\ last.op = "exit_safely" /\ last.ret = "True"
    /\ last.resps = <<RespAck, RespAck, RespExit>>
    /\ AtCentre /\ ~is_HV_on[last.self] /\ ser[last.self] = "closed"

InSeq(x, w) == \E i \in 1..Len(w) : w[i] = x

\* C13: exit_safely writes the re-centering command exactly when the cached
\* position at entry is not (0,0), and the disable command exactly when the
\* high-voltage flag is true where the second step is reached; from (0,0) with
\* high voltage off it writes the logout command alone.
C13_Step ==
    last'.op = "exit_safely"
    => /\ InSeq(RecentreCmd, wire') <=> ~AtCentre
       /\ Len(last'.steps) >= 2 => (InSeq(DisableCmd, wire') <=> is_HV_on[last'.self])
       /\ Len(last'.steps) < 2 => ~InSeq(DisableCmd, wire')
       /\ (AtCentre /\ ~is_HV_on[last'.self]) => wire' = <<LogoutCmd>>

C13_StepsAsNeeded == [][C13_Step]_vars

\* an exit from the centre with high voltage off
C13_Witness ==
    /\ last.op = "exit_safely" /\ last.steps[1] = "Skip" /\ last.steps[2] = "Skip"
    /\ wire = <<LogoutCmd>>

-----------------------------------------------------------------------------
(* The command formatting *)

EndsWithLF(b) == Len(b.c) >= 1 /\ b.c[Len(b.c)] = LF

\* the line ending of c is one "\n": no "\r" or second "\n" stands before it
SingleLFEnding(c) ==
    /\ Len(c) >= 1 /\ c[Len(c)] = LF
    /\ Len(c) >= 2 => c[Len(c) - 1] \notin {CR, LF}

\* C14: a payload whose line ending is a single line-feed, with no
\* carriage-return in it, is written as it is: formatting it again gives the
\* identical bytes.
C14_NormalizedIsFixed ==
    (last.op = "_send_cmd" /\ SingleLFEnding(last.args[1].c))
    => wire = <<Bytes(last.args[1].c)>>

C14_Witness ==
    /\ last.op = "_send_cmd" /\ last.args = <<Bytes(<<"c", "c", LF>>)>>
    /\ wire = <<Bytes(<<"c", "c", LF>>)>>

LineEndings == {<<>>, <<LF>>, <<CR>>, <<CR, LF>>, <<LF, CR>>}

\* c is body followed by one of the five endings, body not empty and not
\* ending in "\r" or "\n"
BodyOf(c, n) ==
    /\ n >= 1 /\ c[n] \notin {CR, LF}
    /\ SubSeq(c, n + 1, Len(c)) \in LineEndings

\* C15: for a command body c, not empty and not ending in CR or LF, each of
\* c, c LF, c CR, c CR LF and c LF CR is written as c followed by one
\* line-feed; whatever is written to the transport ends with a line-feed.
C15_OneLineFeed ==
    /\ last.op = "_send_cmd"
       => \A n \in 1..Len(last.args[1].c) :
             BodyOf(last.args[1].c, n)
             => wire = <<Bytes(Append(SubSeq(last.args[1].c, 1, n), LF))>>
    /\ \A i \in 1..Len(wire) : EndsWithLF(wire[i])

C15_Witness ==
    /\ last.op = "_send_cmd" /\ last.args = <<Text(<<"c", LF, "c", CR>>)>>
    /\ wire = <<Bytes(<<"c", LF, "c", LF>>)>>

-----------------------------------------------------------------------------
(* Construction and failures *)

\* C16: construction writes the sign-on and reads one response, and for every
\* response (none, the "already signed on" line, anything else) it completes
\* and gives a usable session with the high-voltage flag false and the cached
\* position (0,0).
C16_ConstructionCompletes ==
    last.op = "__init__"
    => /\ wire = <<Bytes(<<"$MTI$", LF>>)>> /\ Len(last.resps) = 1
       /\ last.ret = "None"
       /\ ser[last.self] = "open"
       /\ ~is_HV_on[last.self]
       /\ AtCentre

\* what is left of C16 when the response decodes; the position is the
\* class's (C17)
C16_ConstructionCompletes_Decoded ==
    (last.op = "__init__" /\ Decoded(last.resps))
    => /\ wire = <<Bytes(<<"$MTI$", LF>>)>> /\ Len(last.resps) = 1
       /\ last.ret = "None"
       /\ ser[last.self] = "open"
       /\ ~is_HV_on[last.self]

PublicOps ==
    ParamSetters \cup {"set_mirror_params", "set_mirror_position", "HV_on",
                       "HV_off", "exit_safely"}

\* C18: a public call that fails (wrong state, argument of the wrong type or
\* out of range, settings missing, unexpected response) reports it in the
\* value it returns and never ends in an exception.
C18_FailureIsReturned == last.op \in PublicOps => last.ret # "Raise"

\* what is left of C18: no exception when every response decodes and the
\* position arguments are numbers
C18_FailureIsReturned_Decoded ==
    (last.op \in PublicOps /\ Decoded(last.resps)
        /\ (last.op = "set_mirror_position"
              => IsNumber(last.args[1]) /\ IsNumber(last.args[2])))
    => last.ret # "Raise"

-----------------------------------------------------------------------------
(* Two sessions *)

Unset == \A k \in DOMAIN settings : settings[k] = PyNone

\* C17: each session has its own settings and position record: a call on one
\* session changes neither the settings nor the position another session
\* reads, and a new session has the three settings unset until its own setter
\* calls are acknowledged.
C17_Step ==
    /\ \A i \in Instances :
          (ser[i] = "open" /\ last'.self # i)
          => (settings' = settings /\ position' = position)
    /\ (last'.op = "__init__" /\ last'.ret = "None") => Unset'

C17_OwnRecord == [][C17_Step]_vars

-----------------------------------------------------------------------------
(* The getters *)

\* the argument the step's call gave for setting k, if it gave one
ArgFor(k) ==
    IF last'.op \in ParamSetters
    THEN IF SlotOf[last'.op] = k THEN <<last'.args[1]>> ELSE <<>>
    ELSE IF last'.op = "set_mirror_params"
         THEN <<last'.args[CASE k = "Vbias" -> 1 [] k = "VdifferenceMax" -> 2
                             [] OTHER -> 3]>>
         ELSE <<>>

\* the step's call wrote the command that sets k and read the acknowledgement
\* in answer
AckedFor(k) ==
    /\ ArgFor(k) # <<>>
    /\ Answered(wire', last'.resps, ParamCmd(k, ArgFor(k)[1]), RespAck)

\* C19: get_mirror_params returns for each parameter the value of the most
\* recent setter call for it that was answered with the acknowledgement, unset
\* when there was none; get_mirror_position returns the (x, y) of the most
\* recent acknowledged move, (0,0) when there was none; the getters change no
\* state and write nothing.  Stated step by step: the values start unset and
\* at (0,0), a step changes one exactly when its call was acknowledged, to the
\* value the call gave, and a getter returns them.
C19_Step ==
    /\ \A k \in DOMAIN settings :
          settings'[k] = IF AckedFor(k) THEN ArgFor(k)[1] ELSE settings[k]
    /\ position' =
          IF last'.op = "set_mirror_position" /\ last'.resps = <<RespAck>>
          THEN [x |-> last'.args[1], y |-> last'.args[2]]
          ELSE IF last'.op = "exit_safely"
                  /\ Answered(wire', last'.resps, RecentreCmd, RespAck)
               THEN [x |-> PyInt(0), y |-> PyInt(0)]
               ELSE position
    /\ last'.op = "get_mirror_params"
       => /\ last'.out = <<settings.Vbias, settings.VdifferenceMax,
                           settings.HardwareFilterBW>>
          /\ wire' = <<>>
          /\ UNCHANGED <<settings, position, is_HV_on, ser>>
    /\ last'.op = "get_mirror_position"
       => /\ last'.out = <<position.x, position.y>>
          /\ wire' = <<>>
          /\ UNCHANGED <<settings, position, is_HV_on, ser>>

C19_MostRecentAcked == (Unset /\ AtCentre) /\ [][C19_Step]_vars

\* the position read back after a move, one setting set and one still unset
C19_Witness ==
    /\ last.op = "get_mirror_position"
    /\ last.out = <<PyInt(1), PyInt(-1)>>
    /\ settings.Vbias = PyInt(100) /\ settings.VdifferenceMax = PyNone

-----------------------------------------------------------------------------
(* What a call leaves alone *)

OthersKeepFlag == \A i \in Instances \ {last'.self} : is_HV_on'[i] = is_HV_on[i]

\* C20: a parameter setter changes at most its own setting, never the other
\* two, the position or the high-voltage flag; set_mirror_position changes at
\* most the cached position; HV_on and HV_off change at most the high-voltage
\* flag; exit_safely never changes the settings; and each of the single-command
\* calls writes at most one command, with no second attempt.
C20_Step ==
    /\ last'.op \in ParamSetters
       => /\ \A k \in DOMAIN settings \ {SlotOf[last'.op]} : settings'[k] = settings[k]
          /\ UNCHANGED <<position, is_HV_on, ser>>
          /\ Len(wire') <= 1
    /\ last'.op = "set_mirror_position"
       => /\ UNCHANGED <<settings, is_HV_on, ser>>
          /\ Len(wire') <= 1
    /\ last'.op \in {"HV_on", "HV_off"}
       => /\ UNCHANGED <<settings, position, ser>>
          /\ OthersKeepFlag
          /\ Len(wire') <= 1
    /\ last'.op = "exit_safely" => settings' = settings

C20_OwnPartOnly == [][C20_Step]_vars

\* a setter changed its own setting beside two that were set and kept
C20_Witness ==
    /\ last.op = "set_VdifferenceMax" /\ last.ret = "True"
    /\ wire = <<ParamCmd("VdifferenceMax", PyInt(0))>>
    /\ settings = [Vbias |-> PyInt(100), VdifferenceMax |-> PyInt(0),
                   HardwareFilterBW |-> PyInt(50)]
    /\ ~AtCentre

====
